---- MODULE Spec2Model ----
(***************************************************************************)
(* Model of the analysis store of the React front end                      *)
(* (frontend/src/contexts/AnalysisContext.tsx): the reducer, the six       *)
(* operations of the provider and the polling loop that startAnalysis      *)
(* installs with setInterval.  Every await of the code is a point where    *)
(* an operation is suspended, so each operation is split at its awaits.    *)
(***************************************************************************)
EXTENDS Bags, FiniteSets, Integers, Sequences, TLC

\* ---------------------------------------------------------------- bounds
\* number of startAnalysis calls in a run of the polling specification
MaxTasks == 2
\* number of startAnalysis calls in a run of the full specification
MaxStarts == 1
\* number of callbacks of the interval timers that may be suspended at once
MaxTicks == 2
\* number of explicit calls (status, result, history, delete, clear) in a run
MaxCalls == 2
\* longest list GET /history returns in the concurrent specification
MaxServerHistory == 1
\* longest list GET /history returns in the history specification
MaxReload == 11
\* number of operations in a run of the history specification
MaxHistoryOps == 3

\* ------------------------------------------------------------ data model
\* ids of the tasks created in this run, and of one older, completed task
NewIds == 1..MaxTasks
OldId == MaxTasks + 1
Ids == 1..OldId
\* the task ids the explicit operations are called with
CallIds == (1..MaxStarts) \cup {OldId}
NoTask == 0

\* null of currentAnalysis and analysisStatus, and of the error field
NULL == [null |-> TRUE]
NoError == "null"

ApiError == "API call failed"
AnalysisFailed == "Analysis failed"
ResultFailed == "Failed to get analysis result"

Terminal == {"completed", "failed"}

\* body of GET /status/{task_id}
Progress(s) ==
  CASE s = "pending" -> 0
    [] s = "processing" -> 50
    [] OTHER -> 100
StatusOf(t, s) ==
  [task_id |-> t, status |-> s, progress |-> Progress(s), message |-> s]

\* body of GET /result/{task_id}
ResultOf(t) ==
  [task_id |-> t, query |-> t, total_posts |-> 100 + t,
   total_comments |-> 200 + t, analysis_duration |-> 10 + t,
   created_at |-> 1000 + t, posts |-> <<t>>, analytics |-> "analytics"]

\* variant: the two counts of the entry are taken from each other's field
HistoryItemSwapped(result) ==
  [task_id |-> result.task_id, query |-> result.query,
   total_posts |-> result.total_comments,
   total_comments |-> result.total_posts,
   analysis_duration |-> result.analysis_duration,
   created_at |-> result.created_at]

\* the history entry built from a result
HistoryItem(result) ==
  [task_id |-> result.task_id, query |-> result.query,
   total_posts |-> result.total_posts,
   total_comments |-> result.total_comments,
   analysis_duration |-> result.analysis_duration,
   created_at |-> result.created_at]

\* Array.prototype.slice(0, n)
Slice(s, n) == SubSeq(s, 1, IF Len(s) < n THEN Len(s) ELSE n)

\* Array.prototype.filter(item => item.task_id !== taskId)
RECURSIVE FilterOut(_, _)
FilterOut(s, taskId) ==
  IF s = <<>> THEN <<>>
  ELSE IF Head(s).task_id # taskId
       THEN <<Head(s)>> \o FilterOut(Tail(s), taskId)
       ELSE FilterOut(Tail(s), taskId)

initialState ==
  [currentAnalysis |-> NULL, analysisStatus |-> NULL, history |-> <<>>,
   isLoading |-> FALSE, error |-> NoError]

\* number of history entries kept besides the new one
HistoryKeep == 9

\* the capacity of the history: the new entry and the entries kept
HistoryCapacity == HistoryKeep + 1

\* variant: the slice keeps ten entries instead of nine
AddToHistoryKeepTen(history, item) ==
  <<item>> \o Slice(history, HistoryKeep + 1)

\* variant: an entry of the same task is taken out before the push
AddToHistoryDedup(history, item) ==
  <<item>> \o Slice(FilterOut(history, item.task_id), HistoryKeep)

\* variant: only the last entry of a full history is dropped
AddToHistoryDropLast(history, item) ==
  <<item>> \o (IF Len(history) >= HistoryKeep + 1
               THEN SubSeq(history, 1, Len(history) - 1)
               ELSE history)

AddToHistory(history, item) == <<item>> \o Slice(history, HistoryKeep)

analysisReducer(s, a) ==
  CASE a.type = "SET_LOADING" -> [s EXCEPT !.isLoading = a.payload]
    [] a.type = "SET_ERROR" ->
         [s EXCEPT !.error = a.payload, !.isLoading = FALSE]
    [] a.type = "SET_ANALYSIS_STATUS" -> [s EXCEPT !.analysisStatus = a.payload]
    [] a.type = "SET_CURRENT_ANALYSIS" ->
         [s EXCEPT !.currentAnalysis = a.payload, !.isLoading = FALSE]
    [] a.type = "SET_HISTORY" -> [s EXCEPT !.history = a.payload]
    [] a.type = "CLEAR_CURRENT_ANALYSIS" ->
         [s EXCEPT !.currentAnalysis = NULL, !.analysisStatus = NULL]
    [] a.type = "ADD_TO_HISTORY" ->
         [s EXCEPT !.history = AddToHistory(s.history, a.payload)]
    [] OTHER -> s

Act(type, payload) == [type |-> type, payload |-> payload]

\* the store after the dispatches of one synchronous stretch of code
RECURSIVE Dispatch(_, _)
Dispatch(s, as) ==
  IF as = <<>> THEN s ELSE Dispatch(analysisReducer(s, Head(as)), Tail(as))

\* ------------------------------------------------ effects of the handlers
\* startAnalysis, lines 98-99
StartAnalysisBegin(s) ==
  Dispatch(s, <<Act("SET_LOADING", TRUE), Act("SET_ERROR", NoError)>>)

\* variant: a message already shown is kept and the loading flag is left
FailedKeepsFirst(s, message) ==
  IF s.error # NoError THEN s ELSE Dispatch(s, <<Act("SET_ERROR", message)>>)

\* the catch blocks of the explicit operations
Failed(s, message) == Dispatch(s, <<Act("SET_ERROR", message)>>)

\* pollStatus line 112 and getAnalysisStatus line 163
StatusReceived(s, status) ==
  Dispatch(s, <<Act("SET_ANALYSIS_STATUS", status)>>)

\* getAnalysisResult, line 172
GetAnalysisResultBegin(s) == Dispatch(s, <<Act("SET_LOADING", TRUE)>>)

\* variant: a fetched result also resets the error message
ResultReceivedClearsError(s, result) ==
  Dispatch(s, <<Act("SET_ERROR", NoError),
                Act("SET_CURRENT_ANALYSIS", result),
                Act("ADD_TO_HISTORY", HistoryItem(result))>>)

\* lines 131-142 of the interval callback and 174-185 of getAnalysisResult
ResultReceived(s, result) ==
  Dispatch(s, <<Act("SET_CURRENT_ANALYSIS", result),
                Act("ADD_TO_HISTORY", HistoryItem(result))>>)

\* variant: the list of the service is put in front of the entries held
HistoryReceivedMerged(s, list) ==
  Dispatch(s, <<Act("SET_HISTORY", list \o s.history)>>)

\* getHistory, line 196
HistoryReceived(s, list) == Dispatch(s, <<Act("SET_HISTORY", list)>>)

\* variant: the clear also empties the history and the error message
ClearedEverything(s) ==
  [initialState EXCEPT !.isLoading = s.isLoading]

\* clearCurrentAnalysis, line 204
Cleared(s) == Dispatch(s, <<Act("CLEAR_CURRENT_ANALYSIS", NULL)>>)

\* state.currentAnalysis?.task_id
CurrentTaskId(s) ==
  IF s.currentAnalysis = NULL THEN NoTask ELSE s.currentAnalysis.task_id

\* variant: the history is updated but the displayed result is never cleared
DeleteAppliedHistoryOnly(s, history, currentTaskId, taskId) ==
  Dispatch(s, <<Act("SET_HISTORY", FilterOut(history, taskId))>>)

\* deleteAnalysis, lines 213-219: history and currentTaskId are the values
\* of state.history and state.currentAnalysis?.task_id that the callback
\* closed over when it was created, that is, when deleteAnalysis was called
DeleteApplied(s, history, currentTaskId, taskId) ==
  Dispatch(s, <<Act("SET_HISTORY", FilterOut(history, taskId))>>
              \o (IF currentTaskId = taskId
                  THEN <<Act("CLEAR_CURRENT_ANALYSIS", NULL)>>
                  ELSE <<>>))

\* ------------------------------------------------------------------ state
VARIABLES
  state,         \* the store: useReducer(analysisReducer, initialState)
  serverStatus,  \* the status the analysis service holds for each task id
  intervalLive,  \* task id -> its setInterval timer has not been cleared
  ticks,         \* bag of suspended callbacks of the interval timers
  calls,         \* bag of suspended explicit operations
  ncalls,        \* number of explicit operations invoked so far
  nstarts,       \* number of startAnalysis invocations so far
  activeTask,    \* task id returned by the latest successful startAnalysis
  log,           \* task id -> what the polling loop of the task has done
  last           \* the latest step of the client and the store before it

vars ==
  <<state, serverStatus, intervalLive, ticks, calls, ncalls, nstarts,
    activeTask, log, last>>

One(r) == SetToBag({r})

Tick(t, pc, resp) == [task |-> t, pc |-> pc, resp |-> resp]

Call(kind, t, resp, history, currentTaskId) ==
  [kind |-> kind, task |-> t, resp |-> resp, history |-> history,
   currentTaskId |-> currentTaskId]

\* a step of the client: the operation, its task id, the suspended record it
\* resumed (NULL for an invocation) and the store before the step
Step(op, t, rec) == [op |-> op, task |-> t, rec |-> rec, pre |-> state]

emptyLog ==
  [ticked |-> FALSE, observed |-> "none", resultRequests |-> 0,
   statusAfterTerminal |-> FALSE]

Init ==
  /\ state = initialState
  /\ serverStatus = [t \in Ids |-> IF t = OldId THEN "completed" ELSE "none"]
  /\ intervalLive = [t \in Ids |-> FALSE]
  /\ ticks = EmptyBag
  /\ calls = EmptyBag
  /\ ncalls = 0
  /\ nstarts = 0
  /\ activeTask = NoTask
  /\ log = [t \in Ids |-> emptyLog]
  /\ last = [op |-> "init", task |-> NoTask, rec |-> NULL,
             pre |-> initialState]

\* ----------------------------------------------------- the analysis service
\* a task moves along pending, processing, then completed or failed
ServerProgress(t) ==
  /\ \/ /\ serverStatus[t] = "pending"
        /\ serverStatus' = [serverStatus EXCEPT ![t] = "processing"]
     \/ /\ serverStatus[t] = "processing"
        /\ \E s \in Terminal : serverStatus' = [serverStatus EXCEPT ![t] = s]
  /\ UNCHANGED <<state, intervalLive, ticks, calls, ncalls, nstarts,
                 activeTask, log, last>>

\* what GET /status/{t} answers when the service handles it now
StatusAnswers(t) ==
  {"error"} \cup (IF serverStatus[t] = "none" THEN {} ELSE {serverStatus[t]})

\* the service handles a status request of a polling loop
ServerHandleTick(k) ==
  /\ k.pc \in {"poll", "final"}
  /\ k.resp = "none"
  /\ \E r \in StatusAnswers(k.task) :
       ticks' = (ticks (-) One(k)) (+) One(Tick(k.task, k.pc, r))
  /\ UNCHANGED <<state, serverStatus, intervalLive, calls, ncalls, nstarts,
                 activeTask, log, last>>

\* the service handles the status request of a getAnalysisStatus call
ServerHandleCall(c) ==
  /\ c.kind = "status"
  /\ c.resp = "none"
  /\ \E r \in StatusAnswers(c.task) :
       calls' = (calls (-) One(c)) (+) One([c EXCEPT !.resp = r])
  /\ UNCHANGED <<state, serverStatus, intervalLive, ticks, ncalls, nstarts,
                 activeTask, log, last>>

\* ------------------------------------------------------------ startAnalysis
\* lines 97-101: up to the await of POST /analyze
StartAnalysisCall ==
  /\ nstarts' = nstarts + 1
  /\ state' = StartAnalysisBegin(state)
  /\ calls' = calls (+) One(Call("post", NoTask, "none", <<>>, NoTask))
  /\ last' = Step("StartAnalysisCall", NoTask, NULL)
  /\ UNCHANGED <<serverStatus, intervalLive, ticks, ncalls, activeTask, log>>

\* the id the service gives to the next task it creates
NextTaskId == CHOOSE t \in NewIds :
  /\ serverStatus[t] = "none"
  /\ \A u \in NewIds : u < t => serverStatus[u] # "none"

\* lines 106-152: the task is created, the timer is installed with
\* setInterval and the task id is returned; nothing is dispatched
StartAnalysisOk(c) ==
  /\ c.kind = "post"
  /\ \E t \in NewIds : serverStatus[t] = "none"
  /\ LET t == NextTaskId IN
       /\ serverStatus' = [serverStatus EXCEPT ![t] = "pending"]
       /\ intervalLive' = [intervalLive EXCEPT ![t] = TRUE]
       /\ activeTask' = t
       /\ last' = Step("StartAnalysisOk", t, c)
  /\ calls' = calls (-) One(c)
  /\ UNCHANGED <<state, ticks, ncalls, nstarts, log>>

\* variant: a failed submission also clears the displayed task
StartAnalysisFailClears(c) ==
  /\ c.kind = "post"
  /\ state' = Failed(Cleared(state), ApiError)
  /\ calls' = calls (-) One(c)
  /\ last' = Step("StartAnalysisFail", NoTask, c)
  /\ UNCHANGED <<serverStatus, intervalLive, ticks, ncalls, nstarts,
                 activeTask, log>>

\* lines 153-156: POST /analyze failed
StartAnalysisFail(c) ==
  /\ c.kind = "post"
  /\ state' = Failed(state, ApiError)
  /\ calls' = calls (-) One(c)
  /\ last' = Step("StartAnalysisFail", NoTask, c)
  /\ UNCHANGED <<serverStatus, intervalLive, ticks, ncalls, nstarts,
                 activeTask, log>>

\* --------------------------------------------- the setInterval callback
\* the timer of task t fires: line 122 calls pollStatus, which awaits
\* GET /status (line 111)
TickFire(t) ==
  /\ intervalLive[t]
  /\ ticks' = ticks (+) One(Tick(t, "poll", "none"))
  /\ log' = [log EXCEPT ![t].ticked = TRUE]
  /\ UNCHANGED <<state, serverStatus, intervalLive, calls, ncalls, nstarts,
                 activeTask, last>>

\* variant: a failed status request clears the timer and reports the error
PollStatusRespStopsOnError(k) ==
  /\ k.pc = "poll"
  /\ k.resp # "none"
  /\ last' = Step("PollStatusResp", k.task, k)
  /\ IF k.resp = "error"
     THEN /\ ticks' = ticks (-) One(k)
          /\ state' = Failed(state, ApiError)
          /\ intervalLive' = [intervalLive EXCEPT ![k.task] = FALSE]
          /\ UNCHANGED log
     ELSE /\ state' = StatusReceived(state, StatusOf(k.task, k.resp))
          /\ IF k.resp \in Terminal
             THEN /\ intervalLive' = [intervalLive EXCEPT ![k.task] = FALSE]
                  /\ ticks' = (ticks (-) One(k))
                                (+) One(Tick(k.task, "final", "none"))
                  /\ log' = [log EXCEPT
                       ![k.task].observed =
                          IF @ = "none" THEN k.resp ELSE @,
                       ![k.task].statusAfterTerminal = TRUE]
             ELSE /\ ticks' = ticks (-) One(k)
                  /\ UNCHANGED <<intervalLive, log>>
  /\ UNCHANGED <<serverStatus, calls, ncalls, nstarts, activeTask>>

\* variant: a terminal status is written but the timer is left running
PollStatusRespKeepsTimer(k) ==
  /\ k.pc = "poll"
  /\ k.resp # "none"
  /\ last' = Step("PollStatusResp", k.task, k)
  /\ ticks' = ticks (-) One(k)
  /\ IF k.resp = "error"
     THEN UNCHANGED state
     ELSE state' = StatusReceived(state, StatusOf(k.task, k.resp))
  /\ UNCHANGED <<serverStatus, intervalLive, log, calls, ncalls, nstarts,
                 activeTask>>

\* pollStatus lines 112-117 and lines 124-128 of the callback
PollStatusResp(k) ==
  /\ k.pc = "poll"
  /\ k.resp # "none"
  /\ last' = Step("PollStatusResp", k.task, k)
  /\ IF k.resp = "error"
     THEN /\ ticks' = ticks (-) One(k)
          /\ UNCHANGED <<state, intervalLive, log>>
     ELSE /\ state' = StatusReceived(state, StatusOf(k.task, k.resp))
          /\ IF k.resp \in Terminal
             THEN /\ intervalLive' = [intervalLive EXCEPT ![k.task] = FALSE]
                  /\ ticks' = (ticks (-) One(k))
                                (+) One(Tick(k.task, "final", "none"))
                  /\ log' = [log EXCEPT
                       ![k.task].observed =
                          IF @ = "none" THEN k.resp ELSE @,
                       ![k.task].statusAfterTerminal = TRUE]
             ELSE /\ ticks' = ticks (-) One(k)
                  /\ UNCHANGED <<intervalLive, log>>
  /\ UNCHANGED <<serverStatus, calls, ncalls, nstarts, activeTask>>

\* variant: the result is requested whatever terminal status is answered
FinalStatusRespNoCheck(k) ==
  /\ k.pc = "final"
  /\ k.resp # "none"
  /\ last' = Step("FinalStatusResp", k.task, k)
  /\ IF k.resp = "error"
     THEN /\ state' = Failed(state, ResultFailed)
          /\ ticks' = ticks (-) One(k)
          /\ UNCHANGED log
     ELSE /\ ticks' = (ticks (-) One(k))
                        (+) One(Tick(k.task, "result", "none"))
          /\ log' = [log EXCEPT ![k.task].resultRequests = @ + 1]
          /\ UNCHANGED state
  /\ UNCHANGED <<serverStatus, intervalLive, calls, ncalls, nstarts,
                 activeTask>>

\* lines 128-130 and 143-148: the answer to the second status request
FinalStatusResp(k) ==
  /\ k.pc = "final"
  /\ k.resp # "none"
  /\ last' = Step("FinalStatusResp", k.task, k)
  /\ CASE k.resp = "error" ->
            /\ state' = Failed(state, ResultFailed)
            /\ ticks' = ticks (-) One(k)
            /\ UNCHANGED log
       [] k.resp = "completed" ->
            /\ ticks' = (ticks (-) One(k))
                          (+) One(Tick(k.task, "result", "none"))
            /\ log' = [log EXCEPT ![k.task].resultRequests = @ + 1]
            /\ UNCHANGED state
       [] OTHER ->
            /\ state' = Failed(state, AnalysisFailed)
            /\ ticks' = ticks (-) One(k)
            /\ UNCHANGED log
  /\ UNCHANGED <<serverStatus, intervalLive, calls, ncalls, nstarts,
                 activeTask>>

\* lines 131-142: GET /result answered
LoopResultOk(k) ==
  /\ k.pc = "result"
  /\ serverStatus[k.task] = "completed"
  /\ state' = ResultReceived(state, ResultOf(k.task))
  /\ ticks' = ticks (-) One(k)
  /\ last' = Step("LoopResultOk", k.task, k)
  /\ UNCHANGED <<serverStatus, intervalLive, calls, ncalls, nstarts,
                 activeTask, log>>

\* lines 146-148: GET /result failed
LoopResultFail(k) ==
  /\ k.pc = "result"
  /\ state' = Failed(state, ResultFailed)
  /\ ticks' = ticks (-) One(k)
  /\ last' = Step("LoopResultFail", k.task, k)
  /\ UNCHANGED <<serverStatus, intervalLive, calls, ncalls, nstarts,
                 activeTask, log>>

\* -------------------------------------------------------- getAnalysisStatus
\* lines 161-162: up to the await of GET /status
GetAnalysisStatusCall(t) ==
  /\ ncalls' = ncalls + 1
  /\ calls' = calls (+) One(Call("status", t, "none", <<>>, NoTask))
  /\ last' = Step("GetAnalysisStatusCall", t, NULL)
  /\ UNCHANGED <<state, serverStatus, intervalLive, ticks, nstarts,
                 activeTask, log>>

\* lines 163-166
GetAnalysisStatusResp(c) ==
  /\ c.kind = "status"
  /\ c.resp # "none"
  /\ state' = IF c.resp = "error" THEN Failed(state, ApiError)
              ELSE StatusReceived(state, StatusOf(c.task, c.resp))
  /\ calls' = calls (-) One(c)
  /\ last' = Step("GetAnalysisStatusResp", c.task, c)
  /\ UNCHANGED <<serverStatus, intervalLive, ticks, ncalls, nstarts,
                 activeTask, log>>

\* -------------------------------------------------------- getAnalysisResult
\* lines 171-173: up to the await of GET /result
GetAnalysisResultCall(t) ==
  /\ ncalls' = ncalls + 1
  /\ state' = GetAnalysisResultBegin(state)
  /\ calls' = calls (+) One(Call("result", t, "none", <<>>, NoTask))
  /\ last' = Step("GetAnalysisResultCall", t, NULL)
  /\ UNCHANGED <<serverStatus, intervalLive, ticks, nstarts, activeTask, log>>

\* lines 174-185
GetAnalysisResultOk(c) ==
  /\ c.kind = "result"
  /\ serverStatus[c.task] = "completed"
  /\ state' = ResultReceived(state, ResultOf(c.task))
  /\ calls' = calls (-) One(c)
  /\ last' = Step("GetAnalysisResultOk", c.task, c)
  /\ UNCHANGED <<serverStatus, intervalLive, ticks, ncalls, nstarts,
                 activeTask, log>>

\* lines 187-189
GetAnalysisResultFail(c) ==
  /\ c.kind = "result"
  /\ state' = Failed(state, ApiError)
  /\ calls' = calls (-) One(c)
  /\ last' = Step("GetAnalysisResultFail", c.task, c)
  /\ UNCHANGED <<serverStatus, intervalLive, ticks, ncalls, nstarts,
                 activeTask, log>>

\* --------------------------------------------------------------- getHistory
\* the lists GET /history can return: entries of distinct tasks
ServerHistories ==
  {<<>>} \cup
  (IF MaxServerHistory >= 1 THEN {<<HistoryItem(ResultOf(t))>> : t \in Ids}
   ELSE {}) \cup
  (IF MaxServerHistory >= 2
   THEN {<<HistoryItem(ResultOf(p[1])), HistoryItem(ResultOf(p[2]))>> :
           p \in {q \in Ids \X Ids : q[1] # q[2]}}
   ELSE {})

\* lines 194-195: up to the await of GET /history
GetHistoryCall ==
  /\ ncalls' = ncalls + 1
  /\ calls' = calls (+) One(Call("history", NoTask, "none", <<>>, NoTask))
  /\ last' = Step("GetHistoryCall", NoTask, NULL)
  /\ UNCHANGED <<state, serverStatus, intervalLive, ticks, nstarts,
                 activeTask, log>>

\* line 196
GetHistoryOk(c, list) ==
  /\ c.kind = "history"
  /\ state' = HistoryReceived(state, list)
  /\ calls' = calls (-) One(c)
  /\ last' = Step("GetHistoryOk", NoTask, [c EXCEPT !.resp = list])
  /\ UNCHANGED <<serverStatus, intervalLive, ticks, ncalls, nstarts,
                 activeTask, log>>

\* lines 197-199
GetHistoryFail(c) ==
  /\ c.kind = "history"
  /\ state' = Failed(state, ApiError)
  /\ calls' = calls (-) One(c)
  /\ last' = Step("GetHistoryFail", NoTask, c)
  /\ UNCHANGED <<serverStatus, intervalLive, ticks, ncalls, nstarts,
                 activeTask, log>>

\* ----------------------------------------------------- clearCurrentAnalysis
ClearCurrentAnalysis ==
  /\ ncalls' = ncalls + 1
  /\ state' = Cleared(state)
  /\ last' = Step("ClearCurrentAnalysis", NoTask, NULL)
  /\ UNCHANGED <<serverStatus, intervalLive, ticks, calls, nstarts,
                 activeTask, log>>

\* ----------------------------------------------------------- deleteAnalysis
\* lines 209-210: up to the await of DELETE /result; the callback in use is
\* the one of the latest render, which closed over the store of that render
DeleteAnalysisCall(t) ==
  /\ ncalls' = ncalls + 1
  /\ calls' = calls (+)
       One(Call("delete", t, "none", state.history, CurrentTaskId(state)))
  /\ last' = Step("DeleteAnalysisCall", t, NULL)
  /\ UNCHANGED <<state, serverStatus, intervalLive, ticks, nstarts,
                 activeTask, log>>

\* lines 212-219
DeleteAnalysisOk(c) ==
  /\ c.kind = "delete"
  /\ state' = DeleteApplied(state, c.history, c.currentTaskId, c.task)
  /\ calls' = calls (-) One(c)
  /\ last' = Step("DeleteAnalysisOk", c.task, c)
  /\ UNCHANGED <<serverStatus, intervalLive, ticks, ncalls, nstarts,
                 activeTask, log>>

\* variant: the entry is removed before the answer of the service is known
DeleteAnalysisFailOptimistic(c) ==
  /\ c.kind = "delete"
  /\ state' = Failed(DeleteApplied(state, c.history, c.currentTaskId, c.task),
                     ApiError)
  /\ calls' = calls (-) One(c)
  /\ last' = Step("DeleteAnalysisFail", c.task, c)
  /\ UNCHANGED <<serverStatus, intervalLive, ticks, ncalls, nstarts,
                 activeTask, log>>

\* lines 220-222
DeleteAnalysisFail(c) ==
  /\ c.kind = "delete"
  /\ state' = Failed(state, ApiError)
  /\ calls' = calls (-) One(c)
  /\ last' = Step("DeleteAnalysisFail", c.task, c)
  /\ UNCHANGED <<serverStatus, intervalLive, ticks, ncalls, nstarts,
                 activeTask, log>>

\* ------------------------------------------------------------ specification
\* every operation of the provider, one polling loop
Next ==
  \/ nstarts < MaxStarts /\ StartAnalysisCall
  \/ \E c \in BagToSet(calls) : StartAnalysisOk(c)
  \/ \E c \in BagToSet(calls) : StartAnalysisFail(c)
  \/ \E t \in NewIds : ServerProgress(t)
  \/ \E k \in BagToSet(ticks) : ServerHandleTick(k)
  \/ \E c \in BagToSet(calls) : ServerHandleCall(c)
  \/ \E t \in NewIds : BagCardinality(ticks) < MaxTicks /\ TickFire(t)
  \/ \E k \in BagToSet(ticks) : PollStatusResp(k)
  \/ \E k \in BagToSet(ticks) : FinalStatusResp(k)
  \/ \E k \in BagToSet(ticks) : LoopResultOk(k)
  \/ \E k \in BagToSet(ticks) : LoopResultFail(k)
  \/ \E t \in CallIds : ncalls < MaxCalls /\ GetAnalysisStatusCall(t)
  \/ \E c \in BagToSet(calls) : GetAnalysisStatusResp(c)
  \/ \E t \in CallIds : ncalls < MaxCalls /\ GetAnalysisResultCall(t)
  \/ \E c \in BagToSet(calls) : GetAnalysisResultOk(c)
  \/ \E c \in BagToSet(calls) : GetAnalysisResultFail(c)
  \/ ncalls < MaxCalls /\ GetHistoryCall
  \/ \E c \in BagToSet(calls), list \in ServerHistories : GetHistoryOk(c, list)
  \/ \E c \in BagToSet(calls) : GetHistoryFail(c)
  \/ ncalls < MaxCalls /\ ClearCurrentAnalysis
  \/ \E t \in CallIds : ncalls < MaxCalls /\ DeleteAnalysisCall(t)
  \/ \E c \in BagToSet(calls) : DeleteAnalysisOk(c)
  \/ \E c \in BagToSet(calls) : DeleteAnalysisFail(c)

Spec == Init /\ [][Next]_vars

\* startAnalysis called several times, and the polling loops it installs
NextPoll ==
  \/ nstarts < MaxTasks /\ StartAnalysisCall
  \/ \E c \in BagToSet(calls) : StartAnalysisOk(c)
  \/ \E c \in BagToSet(calls) : StartAnalysisFail(c)
  \/ \E t \in NewIds : ServerProgress(t)
  \/ \E k \in BagToSet(ticks) : ServerHandleTick(k)
  \/ \E t \in NewIds : BagCardinality(ticks) < MaxTicks /\ TickFire(t)
  \/ \E k \in BagToSet(ticks) : PollStatusResp(k)
  \/ \E k \in BagToSet(ticks) : FinalStatusResp(k)
  \/ \E k \in BagToSet(ticks) : LoopResultOk(k)
  \/ \E k \in BagToSet(ticks) : LoopResultFail(k)

SpecPoll == Init /\ [][NextPoll]_vars

\* ------------------------------------------- one polling loop, with fairness
\* the service answers a status request of the loop of task t with the status
\* it holds
AnswersStatus(t) ==
  /\ serverStatus[t] # "none"
  /\ BagIn(Tick(t, "poll", "none"), ticks)
  /\ ticks' = (ticks (-) One(Tick(t, "poll", "none")))
                 (+) One(Tick(t, "poll", serverStatus[t]))
  /\ UNCHANGED <<state, serverStatus, intervalLive, calls, ncalls, nstarts,
                 activeTask, log, last>>

\* one startAnalysis and the polling loop it installs
NextLive ==
  \/ nstarts < MaxStarts /\ StartAnalysisCall
  \/ \E c \in BagToSet(calls) : StartAnalysisOk(c)
  \/ \E c \in BagToSet(calls) : StartAnalysisFail(c)
  \/ \E t \in NewIds : ServerProgress(t)
  \/ \E k \in BagToSet(ticks) : ServerHandleTick(k)
  \/ \E t \in NewIds : BagCardinality(ticks) < MaxTicks /\ TickFire(t)
  \/ \E k \in BagToSet(ticks) : PollStatusResp(k)
  \/ \E k \in BagToSet(ticks) : FinalStatusResp(k)
  \/ \E k \in BagToSet(ticks) : LoopResultOk(k)
  \/ \E k \in BagToSet(ticks) : LoopResultFail(k)

\* the answers a status request of a loop can hold
TickAnswers == {"error", "pending", "processing", "completed", "failed"}

\* a live timer keeps firing, every request is answered, and every answer
\* resumes the callback that awaits it; the timer of one task fires whatever
\* the callbacks of another task do, so its firing is strongly fair under
\* the bound on the suspended callbacks
Fairness ==
  /\ \A t \in NewIds :
       SF_vars(BagCardinality(ticks) < MaxTicks /\ TickFire(t))
  /\ \A t \in NewIds : \A pc \in {"poll", "final"} :
       WF_vars(BagIn(Tick(t, pc, "none"), ticks)
               /\ ServerHandleTick(Tick(t, pc, "none")))
  /\ \A t \in NewIds : \A r \in TickAnswers :
       WF_vars(BagIn(Tick(t, "poll", r), ticks)
               /\ PollStatusResp(Tick(t, "poll", r)))
  /\ \A t \in NewIds : \A r \in TickAnswers :
       WF_vars(BagIn(Tick(t, "final", r), ticks)
               /\ FinalStatusResp(Tick(t, "final", r)))
  /\ \A t \in NewIds :
       WF_vars(BagIn(Tick(t, "result", "none"), ticks)
               /\ (\/ LoopResultOk(Tick(t, "result", "none"))
                   \/ LoopResultFail(Tick(t, "result", "none"))))

SpecLive == Init /\ [][NextLive]_vars /\ Fairness

\* ------------------------------------------------- the history, sequentially
\* the list of n entries GET /history returns, newest first
ReloadList(n) == [i \in 1..n |-> HistoryItem(ResultOf(i))]

\* getAnalysisResult(t) called and awaited, the result is fetched
HistoryFetchResult(t) ==
  /\ state' = ResultReceived(GetAnalysisResultBegin(state), ResultOf(t))
  /\ last' = Step("GetAnalysisResultOk", t, NULL)

\* getHistory called and awaited, the service lists n entries
HistoryReload(n) ==
  /\ state' = HistoryReceived(state, ReloadList(n))
  /\ last' = Step("GetHistoryOk", NoTask,
                  Call("history", NoTask, ReloadList(n), <<>>, NoTask))

\* deleteAnalysis(t) called and awaited, the service deletes the task
HistoryDelete(t) ==
  /\ state' = DeleteApplied(state, state.history, CurrentTaskId(state), t)
  /\ last' = Step("DeleteAnalysisOk", t, NULL)

\* the operations that write the history, one at a time
NextHistory ==
  /\ ncalls < MaxHistoryOps
  /\ ncalls' = ncalls + 1
  /\ \/ \E t \in 1..(MaxReload + 1) : HistoryFetchResult(t)
     \/ \E n \in 0..MaxReload : HistoryReload(n)
     \/ \E t \in 1..(MaxReload + 1) : HistoryDelete(t)
  /\ UNCHANGED <<serverStatus, intervalLive, ticks, calls, nstarts,
                 activeTask, log>>

SpecHistory == Init /\ [][NextHistory]_vars

\* ------------------------------------------------------------------ claims
TaskIdsOf(history) == {history[i].task_id : i \in 1..Len(history)}

\* C1: a status response of the polling loop of a task other than the one
\* the latest successful startAnalysis returned leaves analysisStatus as it
\* was.
C1_StaleResponseDiscarded ==
  (/\ last.op = "PollStatusResp"
   /\ activeTask # NoTask
   /\ last.task # activeTask)
  => state.analysisStatus = last.pre.analysisStatus

\* C2: at most one interval timer is live in every reachable state.
C2_AtMostOneLoopLive ==
  Cardinality({t \in Ids : intervalLive[t]}) <= 1

\* C3: the polling loop of a task requests the result at most once, only
\* after it has observed the status completed, and its timer is cleared once
\* it has observed a terminal status.
C3_OneResultFetch ==
  \A t \in NewIds :
    /\ log[t].resultRequests <= 1
    /\ log[t].resultRequests >= 1 => log[t].observed = "completed"
    /\ log[t].observed # "none" => ~intervalLive[t]

\* C4: while the service holds the status failed for a task, the polling loop
\* of the task has requested no result and has no result request in flight.
C4_FailedNeverFetchesResult ==
  \A t \in NewIds :
    serverStatus[t] = "failed" =>
      /\ log[t].resultRequests = 0
      /\ \A k \in BagToSet(ticks) : k.task = t => k.pc # "result"

\* C4 witness: the loop observed failed, asked the status again and set the
\* error message of a failed analysis.
C4_Witness ==
  /\ last.op = "FinalStatusResp"
  /\ serverStatus[last.task] = "failed"
  /\ log[last.task].observed = "failed"
  /\ last.rec.resp = "failed"
  /\ state.error = AnalysisFailed

\* C5: the history has at most ten entries in every reachable state.
C5_HistoryAtMostTen == Len(state.history) <= HistoryCapacity

\* C6: a result fetch on a history of at most ten entries puts the new entry
\* first, keeps the previous entries in order behind it, and drops only the
\* tenth entry of a full history.
C6_PushEvictsOldest ==
  (last.op = "GetAnalysisResultOk" /\ Len(last.pre.history) <= HistoryCapacity)
  => LET old == last.pre.history
         new == state.history
     IN /\ new[1] = HistoryItem(ResultOf(last.task))
        /\ Len(new) = IF Len(old) < HistoryCapacity THEN Len(old) + 1
                      ELSE HistoryCapacity
        /\ \A i \in 2..Len(new) : new[i] = old[i - 1]

\* C6 witness: an entry of a new task was pushed onto a history of exactly
\* ten entries.
C6_Witness ==
  /\ last.op = "GetAnalysisResultOk"
  /\ Len(last.pre.history) = HistoryCapacity
  /\ last.task \notin TaskIdsOf(last.pre.history)
  /\ Len(state.history) = HistoryCapacity
  /\ last.pre.history[HistoryCapacity].task_id \notin TaskIdsOf(state.history)

\* C7: from a successful startAnalysis until the first tick of the new task,
\* analysisStatus holds the returned task id with the status pending.
C7_PendingAfterStart ==
  (activeTask # NoTask /\ ~log[activeTask].ticked)
  => /\ state.analysisStatus # NULL
     /\ state.analysisStatus.task_id = activeTask
     /\ state.analysisStatus.status = "pending"

C9_DeleteKeepsOtherTask ==
  (/\ last.op = "DeleteAnalysisOk"
   /\ last.pre.currentAnalysis # NULL
   /\ CurrentTaskId(last.pre) # last.task)
  => /\ state.currentAnalysis = last.pre.currentAnalysis
     /\ state.analysisStatus = last.pre.analysisStatus

\* C10: a deleteAnalysis the service rejects leaves history, currentAnalysis
\* and analysisStatus as they were and sets the error message; invoking
\* deleteAnalysis changes nothing in the store.
C10_DeleteFailureKeepsState ==
  /\ last.op = "DeleteAnalysisFail" =>
       /\ state.history = last.pre.history
       /\ state.currentAnalysis = last.pre.currentAnalysis
       /\ state.analysisStatus = last.pre.analysisStatus
       /\ state.error = ApiError
  /\ last.op = "DeleteAnalysisCall" => state = last.pre

\* C10 witness: the rejected delete was for the displayed task, which has a
\* history entry.
C10_Witness ==
  /\ last.op = "DeleteAnalysisFail"
  /\ CurrentTaskId(state) = last.task
  /\ last.task \in TaskIdsOf(state.history)
  /\ state.error = ApiError

\* C11: a startAnalysis whose POST /analyze fails installs no timer, leaves
\* analysisStatus, currentAnalysis and history as they were and sets the
\* error message; the timers installed are those of the submissions that
\* neither failed nor are still waiting for the answer.
C11_StartFailureKeepsState ==
  last.op = "StartAnalysisFail" =>
    /\ state.analysisStatus = last.pre.analysisStatus
    /\ state.currentAnalysis = last.pre.currentAnalysis
    /\ state.history = last.pre.history
    /\ state.error = ApiError
    /\ LET installed ==
             {t \in Ids : intervalLive[t] \/ log[t].ticked
                            \/ (t \in NewIds /\ serverStatus[t] # "none")}
           waiting == {c \in BagToSet(calls) : c.kind = "post"}
       IN Cardinality(installed) + Cardinality(waiting) <= nstarts - 1

\* C11 witness: the submission failed while a result was displayed and the
\* history was not empty, and no task was ever started.
C11_Witness ==
  /\ last.op = "StartAnalysisFail"
  /\ last.pre.currentAnalysis # NULL
  /\ last.pre.history # <<>>
  /\ activeTask = NoTask
  /\ \A t \in Ids : ~intervalLive[t]

\* C12: a tick whose status request fails leaves the store as it was and
\* does not clear the timer; the timer of a started task is cleared exactly
\* when a tick of the task has observed a terminal status.
C12_FailedTickKeepsLoop ==
  /\ (last.op = "PollStatusResp" /\ last.rec.resp = "error") =>
       /\ state = last.pre
       /\ intervalLive[last.task] <=> log[last.task].observed = "none"
  /\ \A t \in NewIds :
       serverStatus[t] # "none" =>
         (intervalLive[t] <=> log[t].observed = "none")

\* C12 witness: a tick failed after an earlier tick had written a status,
\* and the timer is still live.
C12_Witness ==
  /\ last.op = "PollStatusResp"
  /\ last.rec.resp = "error"
  /\ state.analysisStatus # NULL
  /\ state.analysisStatus.task_id = last.task
  /\ intervalLive[last.task]

\* C13: a failed status request of the polling loop, the one issued after a
\* terminal status was observed included, leaves the error field as it was
\* and the timer live.
C13_LoopStatusFailureAbsorbed ==
  (/\ last.op \in {"PollStatusResp", "FinalStatusResp"}
   /\ last.rec.resp = "error")
  => /\ state.error = last.pre.error
     /\ log[last.task].observed = "none" => intervalLive[last.task]
     /\ last.op = "FinalStatusResp" => intervalLive[last.task]

\* C14: a status write for the task whose status the store holds never
\* moves backwards along pending, processing, terminal, and never replaces
\* a terminal status by another status.
C14_StatusMonotone ==
  LET Rank(st) == CASE st = "pending" -> 0
                    [] st = "processing" -> 1
                    [] OTHER -> 2
      old == last.pre.analysisStatus
      new == state.analysisStatus
  IN (/\ last.op \in {"PollStatusResp", "GetAnalysisStatusResp"}
      /\ old # NULL
      /\ new # NULL
      /\ old.task_id = new.task_id)
     => /\ Rank(old.status) <= Rank(new.status)
        /\ old.status \in Terminal => new.status = old.status

\* C15: at most one status request of the ticks of one polling loop is in
\* flight in every reachable state.
C15_OneTickInFlight ==
  \A t \in NewIds :
    LET polls == {k \in BagToSet(ticks) : k.task = t /\ k.pc = "poll"}
    IN BagCardinality([k \in polls |-> CopiesIn(k, ticks)]) <= 1

\* C16: isLoading is true exactly when a POST /analyze, a GET /result or a
\* GET /history is outstanding.
C16_LoadingWhileOutstanding ==
  state.isLoading <=>
    \/ \E c \in BagToSet(calls) : c.kind \in {"post", "result", "history"}
    \/ \E k \in BagToSet(ticks) : k.pc = "result"

\* C17 as stated: the error message goes from a message to null only in a
\* step that completes an operation with success.
C17_ErrorUntilSuccess ==
  (last.pre.error # NoError /\ state.error = NoError)
  => last.op \in {"StartAnalysisOk", "GetAnalysisStatusResp",
                  "GetAnalysisResultOk", "LoopResultOk", "GetHistoryOk",
                  "DeleteAnalysisOk", "ClearCurrentAnalysis"}

\* C17 as amended: the error message goes from a message to null only in
\* the step that invokes startAnalysis; every other step that finds a
\* message leaves a message.
C17_ErrorUntilNextStart ==
  (last.pre.error # NoError /\ state.error = NoError)
  => last.op = "StartAnalysisCall"

\* C17 witness: the invocation of startAnalysis removed a message while
\* its POST is outstanding.
C17_Witness ==
  /\ last.op = "StartAnalysisCall"
  /\ last.pre.error # NoError
  /\ state.error = NoError
  /\ \E c \in BagToSet(calls) : c.kind = "post"

\* C18: right after a result fetch of task T succeeds, in getAnalysisResult
\* or in the polling loop, currentAnalysis is the result of T and the first
\* history entry holds the six summary fields of that result.
C18_ResultAndProjection ==
  last.op \in {"GetAnalysisResultOk", "LoopResultOk"} =>
    LET result == ResultOf(last.task)
        entry == state.history[1]
    IN /\ state.currentAnalysis = result
       /\ Len(state.history) >= 1
       /\ DOMAIN entry = {"task_id", "query", "total_posts", "total_comments",
                          "analysis_duration", "created_at"}
       /\ entry.task_id = result.task_id
       /\ entry.query = result.query
       /\ entry.total_posts = result.total_posts
       /\ entry.total_comments = result.total_comments
       /\ entry.analysis_duration = result.analysis_duration
       /\ entry.created_at = result.created_at

\* C18 witness: the polling loop fetched the result of its task while the
\* result of another task was displayed and listed.
C18_Witness ==
  /\ last.op = "LoopResultOk"
  /\ last.pre.currentAnalysis # NULL
  /\ CurrentTaskId(last.pre) # last.task
  /\ last.pre.history # <<>>
  /\ CurrentTaskId(state) = last.task

\* C19: a failed getHistory leaves the history as it was; a successful one
\* leaves exactly the list the service answered.
C19_HistoryReplacedOrKept ==
  /\ last.op = "GetHistoryFail" => state.history = last.pre.history
  /\ last.op = "GetHistoryOk" => state.history = last.rec.resp

\* C19 witness: the list answered replaced a history that held an entry the
\* list does not hold.
C19_Witness ==
  /\ last.op = "GetHistoryOk"
  /\ last.pre.history # <<>>
  /\ last.rec.resp # <<>>
  /\ TaskIdsOf(last.pre.history) \cap TaskIdsOf(last.rec.resp) = {}
  /\ TaskIdsOf(state.history) \cap TaskIdsOf(last.pre.history) = {}

\* C20: whenever the timer of a task is live, the client has a step that
\* clears it without a request to the service and without an answer of it.
C20_CancelPollingOffered ==
  \A t \in NewIds :
    intervalLive[t] =>
      ENABLED (/\ Next
               /\ ~intervalLive'[t]
               /\ ticks' = ticks
               /\ calls' = calls
               /\ serverStatus' = serverStatus)

\* C21: right after a failure of startAnalysis, getAnalysisStatus,
\* getAnalysisResult, getHistory or deleteAnalysis the error field holds the
\* message of that failure, whatever it held before, and isLoading is false.
C21_FailureSetsError ==
  (\/ last.op \in {"StartAnalysisFail", "GetAnalysisResultFail",
                   "GetHistoryFail", "DeleteAnalysisFail"}
   \/ last.op = "GetAnalysisStatusResp" /\ last.rec.resp = "error")
  => /\ state.error = ApiError
     /\ ~state.isLoading

\* C21 witness: the failure replaced the message of the polling loop while
\* the loading flag was set.
C21_Witness ==
  /\ last.op \in {"GetAnalysisResultFail", "GetHistoryFail",
                  "DeleteAnalysisFail"}
  /\ last.pre.error \in {AnalysisFailed, ResultFailed}
  /\ last.pre.isLoading
  /\ state.error = ApiError
  /\ ~state.isLoading

\* C22: once the polling loop of a task has observed completed and none of
\* its callbacks is suspended any more, the history holds the entry of the
\* task.
C22_CompletedGetsResult ==
  \A t \in NewIds :
    (/\ log[t].observed = "completed"
     /\ ~intervalLive[t]
     /\ \A k \in BagToSet(ticks) : k.task # t)
    => t \in TaskIdsOf(state.history)

\* C24: the polling loop that observed failed ends with the error message
\* 'Analysis failed' and with currentAnalysis and history as they were
\* before its last step.
C24_FailedObserved ==
  (/\ last.op = "FinalStatusResp"
   /\ log[last.task].observed = "failed")
  => /\ state.error = AnalysisFailed
     /\ ~intervalLive[last.task]
     /\ state.currentAnalysis = last.pre.currentAnalysis
     /\ state.history = last.pre.history

\* C23: the timer of a task is cleared only by a status answer that is
\* terminal, so it stays live while the service holds no terminal status or
\* while every status request fails; and if status requests are answered
\* with the status again and again, a timer that is live while the service
\* holds a terminal status is cleared eventually.
C23_LoopStopsOnlyOnTerminal ==
  /\ [](\A t \in NewIds :
          (serverStatus[t] # "none" /\ ~intervalLive[t])
          => /\ serverStatus[t] \in Terminal
             /\ log[t].observed \in Terminal)
  /\ \A t \in NewIds :
       SF_vars(AnswersStatus(t))
       => ((intervalLive[t] /\ serverStatus[t] \in Terminal)
             ~> ~intervalLive[t])

\* C23 witness: the timer was cleared by a terminal answer while another
\* status request of the same loop had failed.
C23_Witness ==
  /\ last.op = "PollStatusResp"
  /\ last.rec.resp \in Terminal
  /\ ~intervalLive[last.task]
  /\ BagIn(Tick(last.task, "poll", "error"), ticks)

\* C25: a successful result fetch of a task adds one entry of that task to
\* the entries the push keeps, whether or not the history already holds an
\* entry of the task.
C25_NoDeduplication ==
  last.op \in {"GetAnalysisResultOk", "LoopResultOk"} =>
    LET Count(h) ==
          Cardinality({i \in 1..Len(h) : h[i].task_id = last.task})
    IN Count(state.history)
         = Count(Slice(last.pre.history, HistoryKeep)) + 1

\* C25 witness: the result of a task was fetched while the history held an
\* entry of that task, and the history now holds two.
C25_Witness ==
  /\ last.op \in {"GetAnalysisResultOk", "LoopResultOk"}
  /\ last.task \in TaskIdsOf(last.pre.history)
  /\ Len(state.history) >= 2
  /\ state.history[1].task_id = last.task
  /\ state.history[2].task_id = last.task

\* C26: a successful deleteAnalysis(taskId) leaves the history that was held
\* when the answer was applied, without the entries of taskId.
C26_DeleteRemovesOnlyTask ==
  last.op = "DeleteAnalysisOk"
  => state.history = FilterOut(last.pre.history, last.task)

\* C27: clearCurrentAnalysis sets currentAnalysis and analysisStatus to null
\* and leaves history, isLoading and error as they were; a status write and
\* a write of the current result leave the history as it was.
C27_ClearFrame ==
  /\ last.op = "ClearCurrentAnalysis" =>
       /\ state.currentAnalysis = NULL
       /\ state.analysisStatus = NULL
       /\ state.history = last.pre.history
       /\ state.isLoading = last.pre.isLoading
       /\ state.error = last.pre.error
  /\ (last.op \in {"PollStatusResp", "GetAnalysisStatusResp"}
      /\ last.rec.resp # "error")
     => /\ state.analysisStatus = StatusOf(last.task, last.rec.resp)
        /\ state.history = last.pre.history
  /\ \A t \in Ids :
       analysisReducer(state, Act("SET_CURRENT_ANALYSIS", ResultOf(t))).history
         = state.history

\* C27 witness: the clear happened while a result was displayed with its
\* status, the history held an entry and the loading flag was set.
C27_Witness ==
  /\ last.op = "ClearCurrentAnalysis"
  /\ last.pre.currentAnalysis # NULL
  /\ last.pre.analysisStatus # NULL
  /\ last.pre.history # <<>>
  /\ last.pre.isLoading
  /\ state.currentAnalysis = NULL
  /\ state.isLoading

\* C28: the step of a polling loop that follows clearCurrentAnalysis, with
\* no operation invoked in between, leaves analysisStatus and
\* currentAnalysis null and the history as it was.
C28_ClearedStaysNull ==
  [][(/\ last.op = "ClearCurrentAnalysis"
      /\ last'.op \in {"PollStatusResp", "FinalStatusResp", "LoopResultOk",
                       "LoopResultFail"})
     => /\ state'.analysisStatus = NULL
        /\ state'.currentAnalysis = NULL
        /\ state'.history = state.history]_vars

\* C29: a push onto a history of n entries leaves min(n + 1, 10) entries:
\* the new entry, then the first min(n, 9) previous entries in order.
C29_PushOnAnyLength ==
  last.op = "GetAnalysisResultOk" =>
    LET n == Len(last.pre.history)
        kept == IF n < 9 THEN n ELSE 9
    IN /\ Len(state.history) = (IF n + 1 < 10 THEN n + 1 ELSE 10)
       /\ state.history[1].task_id = last.task
       /\ \A i \in 1..kept : state.history[i + 1] = last.pre.history[i]

\* C29 witness: a push onto a reloaded history of more than ten entries left
\* exactly ten.
C29_Witness ==
  /\ last.op = "GetAnalysisResultOk"
  /\ Len(last.pre.history) > 10
  /\ Len(state.history) = 10

====
